---- MODULE Spec2Model ----
(***************************************************************************)
(* Model of bs21.py, the command line client of the Renkforce BS-21        *)
(* bluetooth power switch: the session state (class State), the telegram   *)
(* encoder and decoder (class BS21) and the command loop (do_commands).    *)
(*                                                                         *)
(* A Python str is a sequence of one-character strings, so that slicing,   *)
(* str.split, str.startswith, int() and the % formatting are computed the  *)
(* way the code computes them.                                             *)
(***************************************************************************)
EXTENDS Integers, Sequences, FiniteSets, TLC

(***************************************************************************)
(* Bounds of the model.                                                    *)
(***************************************************************************)
\* number of commands on the command line of one do_commands run
MaxCmds == 2

(***************************************************************************)
(* Python str, int() and % formatting.                                     *)
(***************************************************************************)
\* printable ASCII, chr(32) .. chr(126); the grave accent is written "chr(96)"
Ascii ==
  << " ", "!", "\"", "#", "$", "%", "&", "'", "(", ")", "*", "+", ",", "-",
     ".", "/", "0", "1", "2", "3", "4", "5", "6", "7", "8", "9", ":", ";",
     "<", "=", ">", "?", "@", "A", "B", "C", "D", "E", "F", "G", "H", "I",
     "J", "K", "L", "M", "N", "O", "P", "Q", "R", "S", "T", "U", "V", "W",
     "X", "Y", "Z", "[", "\\", "]", "^", "_", "chr(96)", "a", "b", "c", "d", "e",
     "f", "g", "h", "i", "j", "k", "l", "m", "n", "o", "p", "q", "r", "s",
     "t", "u", "v", "w", "x", "y", "z", "{", "|", "}", "~" >>

\* ord(c) of a printable character, of "\r" and of "\n"
ord(c) ==
  IF c = "\r" THEN 13
  ELSE IF c = "\n" THEN 10
  ELSE 31 + (CHOOSE i \in 1..Len(Ascii) : Ascii[i] = c)

DecDigits == << "0", "1", "2", "3", "4", "5", "6", "7", "8", "9" >>

HexDigitsLower ==
  << "0", "1", "2", "3", "4", "5", "6", "7", "8", "9",
     "a", "b", "c", "d", "e", "f" >>

HexDigitsUpper ==
  << "0", "1", "2", "3", "4", "5", "6", "7", "8", "9",
     "A", "B", "C", "D", "E", "F" >>

IsDecDigit(c) == c \in { "0", "1", "2", "3", "4", "5", "6", "7", "8", "9" }

IsHexDigit(c) ==
  IsDecDigit(c) \/ c \in { "a", "b", "c", "d", "e", "f", "A", "B", "C", "D", "E", "F" }

DecValue(c) == (CHOOSE i \in 1..10 : DecDigits[i] = c) - 1

HexValue(c) ==
  (CHOOSE i \in 1..16 : HexDigitsLower[i] = c \/ HexDigitsUpper[i] = c) - 1

\* str.isspace for the characters of a telegram
IsSpace(c) == c \in {" ", "\r", "\n", "\t"}

\* s[a:b] for 0 <= a, with b clipped to len(s)
Slice(s, a, b) ==
  SubSeq(s, a + 1, IF b < Len(s) THEN b ELSE Len(s))

\* s.startswith(p)
startswith(s, p) ==
  /\ Len(s) >= Len(p)
  /\ SubSeq(s, 1, Len(p)) = p

\* index of the first occurrence of sub in s, 0 when there is none (s.find(sub) + 1)
Find(s, sub) ==
  LET hits == { i \in 1..(Len(s) - Len(sub) + 1) : SubSeq(s, i, i + Len(sub) - 1) = sub }
  IN  IF hits = {} THEN 0 ELSE CHOOSE i \in hits : \A j \in hits : i <= j

\* s.split(" "): every single blank separates, empty tokens are kept.  The
\* tokens of a string are those of its two halves, with the last token of the
\* first half and the first token of the second half joined.
RECURSIVE split(_)
split(s) ==
  IF s = << >> THEN << << >> >>
  ELSE IF Len(s) = 1 THEN (IF s[1] = " " THEN << << >>, << >> >> ELSE << s >>)
  ELSE LET h == Len(s) \div 2
           A == split(SubSeq(s, 1, h))
           B == split(SubSeq(s, h + 1, Len(s)))
       IN  SubSeq(A, 1, Len(A) - 1) \o << A[Len(A)] \o B[1] >> \o Tail(B)

\* s.strip() as int() applies it
RECURSIVE LStrip(_)
LStrip(s) ==
  IF s # << >> /\ IsSpace(Head(s)) THEN LStrip(Tail(s)) ELSE s

RECURSIVE RStrip(_)
RStrip(s) ==
  IF s # << >> /\ IsSpace(s[Len(s)]) THEN RStrip(SubSeq(s, 1, Len(s) - 1)) ELSE s

RECURSIVE DecNumber(_)
DecNumber(s) ==
  IF s = << >> THEN 0 ELSE 10 * DecNumber(SubSeq(s, 1, Len(s) - 1)) + DecValue(s[Len(s)])

RECURSIVE HexNumber(_)
HexNumber(s) ==
  IF s = << >> THEN 0 ELSE 16 * HexNumber(SubSeq(s, 1, Len(s) - 1)) + HexValue(s[Len(s)])

\* int(x) of a str: blanks around, an optional sign, decimal digits; anything
\* else is a ValueError (ok = FALSE)
int(x) ==
  LET Read(t) ==
        LET signed == t # << >> /\ t[1] \in {"+", "-"}
            Number(digits) ==
              LET ok == digits # << >> /\ \A i \in 1..Len(digits) : IsDecDigit(digits[i])
              IN  [ ok  |-> ok,
                    val |-> IF ~ok THEN 0
                            ELSE IF signed /\ t[1] = "-" THEN 0 - DecNumber(digits)
                            ELSE DecNumber(digits) ]
        IN  Number(IF signed THEN Tail(t) ELSE t)
  IN  Read(RStrip(LStrip(x)))

\* int(x, 16) of a str: blanks around, an optional sign, hex digits of either case
int16(x) ==
  LET Read(t) ==
        LET signed == t # << >> /\ t[1] \in {"+", "-"}
            Number(digits) ==
              LET ok == digits # << >> /\ \A i \in 1..Len(digits) : IsHexDigit(digits[i])
              IN  [ ok  |-> ok,
                    val |-> IF ~ok THEN 0
                            ELSE IF signed /\ t[1] = "-" THEN 0 - HexNumber(digits)
                            ELSE HexNumber(digits) ]
        IN  Number(IF signed THEN Tail(t) ELSE t)
  IN  Read(RStrip(LStrip(x)))

RECURSIVE DecStr(_)
DecStr(n) ==
  IF n < 10 THEN << DecDigits[n + 1] >>
  ELSE Append(DecStr(n \div 10), DecDigits[(n % 10) + 1])

\* "%d" % n
Fmt_d(n) == IF n < 0 THEN << "-" >> \o DecStr(0 - n) ELSE DecStr(n)

\* "%02d" % n: padded with zeros to two characters, never cut
Fmt_02d(n) ==
  LET d == Fmt_d(n)
  IN  IF Len(d) >= 2 THEN d
      ELSE IF n < 0 THEN << "-" >> \o Tail(d)
      ELSE << "0" >> \o d

RECURSIVE HexStr(_)
HexStr(n) ==
  IF n < 16 THEN << HexDigitsLower[n + 1] >>
  ELSE Append(HexStr(n \div 16), HexDigitsLower[(n % 16) + 1])

\* hex(n) for n >= 0
hex(n) == << "0", "x" >> \o HexStr(n)

\* s.replace("x", "0")
replace_x_0(s) == [ i \in 1..Len(s) |-> IF s[i] = "x" THEN "0" ELSE s[i] ]

\* s[-2:]
Last2(s) == IF Len(s) <= 2 THEN s ELSE SubSeq(s, Len(s) - 1, Len(s))

\* s.upper()
upper(s) ==
  [ i \in 1..Len(s) |->
      IF \E k \in 11..16 : HexDigitsLower[k] = s[i]
      THEN HexDigitsUpper[CHOOSE k \in 11..16 : HexDigitsLower[k] = s[i]]
      ELSE IF ord(s[i]) >= 97 /\ ord(s[i]) <= 122 THEN Ascii[ord(s[i]) - 32 - 31]
      ELSE s[i] ]

\* a flag test that compares instead of masking
BitSetGeq(n, bit) == n >= bit

\* n & bit > 0, for bit a power of two
BitSet(n, bit) == (n \div bit) % 2 = 1

CRLF == << "\r", "\n" >>

(***************************************************************************)
(* The telegrams the switch answers with in the runs that are checked.     *)
(***************************************************************************)
SP == << " " >>

RespOK ==
  << "$", "O", "K", "\r", "\n" >>

RespERR ==
  << "$", "E", "R", "R", "\r", "\n" >>

RespEmpty == << >>

\* an answer that is neither a status line nor an acknowledgment
RespGarbage ==
  << "?", "\r", "\n" >>

StatusA ==
  << "$", "B", "S", "-", "2", "1", "-", "0", "0", "4", "5", "9", "3", "-",
     "1", "-", "D", " ", "V", "1", ".", "1", "8", " ", "0", "2", " ", "0",
     "5", " ", "4", "1", " ", "5", "9", "\r", "\n" >>

StatusB ==
  << "$", "B", "S", "-", "2", "1", "-", "0", "0", "4", "5", "9", "3", "-",
     "0", "-", "Z", " ", "V", "1", ".", "1", "8", " ", "4", "0", " ", "2",
     "3", " ", "5", "9", " ", "3", "0", "\r", "\n" >>

\* a status line whose day of week field is 00
StatusNoDay ==
  << "$", "B", "S", "-", "2", "1", "-", "0", "0", "4", "5", "9", "3", "-",
     "1", "-", "D", " ", "V", "1", ".", "1", "8", " ", "0", "0", " ", "0",
     "5", " ", "4", "1", " ", "5", "9", "\r", "\n" >>

\* " ".join(tokens)
RECURSIVE Join(_)
Join(tokens) ==
  IF tokens = << >> THEN << >>
  ELSE IF Len(tokens) = 1 THEN tokens[1]
  ELSE LET h == Len(tokens) \div 2
       IN  Join(SubSeq(tokens, 1, h)) \o SP \o Join(SubSeq(tokens, h + 1, Len(tokens)))

Blanks(n) == [ i \in 1..n |-> " " ]

\* the tokens dd, hh, mm of the timers 1..n, f[k] being << dd, hour, minute >>
Groups(f, n) ==
  [ i \in 1..(3 * n) |->
      LET k == (i + 2) \div 3
      IN  IF i % 3 = 1 THEN f[k][1]
          ELSE IF i % 3 = 2 THEN Fmt_02d(f[k][2])
          ELSE Fmt_02d(f[k][3]) ]

InfoHeader ==
  << "$", "O", "K", " ", "I", "N", "F", "O", " ", " ", " ", " ", " ", " " >>

\* An info telegram: 14 characters of header, the 40 timers as "dd hh mm"
\* groups separated by blanks in [14, 372), the random block in [374, 414), the
\* countdown block in [416, 439) and the line end.  The 120 timer tokens take
\* 359 characters, the window of the decoder holds 358 of them.
Info(f, rnd, cd) ==
  LET timers == Join(Groups(f, 40))
      random == Join(rnd)
  IN  InfoHeader \o Slice(timers, 0, 358) \o Blanks(375 - 14 - Len(timers))
        \o random \o Blanks(40 - Len(random)) \o Blanks(2) \o Join(cd) \o SP \o CRLF

d00 == << "0", "0" >>

d01 == << "0", "1" >>

TimersA ==
  [ n \in 1..40 |->
      IF n = 1 THEN << << "1", "F" >>, 6, 0 >>
      ELSE IF n = 20 THEN << << "4", "0" >>, 10, 0 >>
      ELSE IF n = 21 THEN << << "1", "F" >>, 18, 0 >>
      ELSE << d00, 0, 0 >> ]

TimersB ==
  [ n \in 1..40 |->
      IF n = 1 THEN << << "6", "0" >>, 9, 15 >>
      ELSE IF n = 2 THEN << d01, 6, 45 >>
      ELSE << d00, 0, 0 >> ]

RandomA == << << "7", "F" >>, << "2", "0" >>, d00, d01, << "3", "0" >>, d01, d00 >>

RandomB == << d00, d00, d00, d00, d00, d00, d00 >>

CountdownA == << d01, d00, << "1", "0" >>, d00, d01, d00, << "3", "0" >>, d00 >>

\* the seconds of the remaining time read "I0"
CountdownB == << d00, d00, << "0", "5" >>, << "I", "0" >>, d01, d00, << "1", "0" >>, << "0", "7" >> >>

InfoA == Info(TimersA, RandomA, CountdownA)

InfoB == Info(TimersB, RandomB, CountdownB)

\* 442 characters, the day mask of timer 6 is not a hex number
InfoBadTimer ==
  Info([ TimersA EXCEPT ![6] = << << "Z", "Z" >>, 0, 0 >> ], RandomA, CountdownA)

\* 442 characters, the random block holds 5 tokens and blanks
InfoBadRandom ==
  Info(TimersB, << d01, d01, d01, d01, << "x", "x" >> >>, CountdownA)

\* 442 characters, the original time of the countdown is 24:00:00
InfoBadCountdown ==
  Info(TimersB, RandomB, << d01, d00, d00, d00, d01, << "2", "4" >>, d00, d00 >>)

\* 441 and 443 characters
InfoShort == SubSeq(InfoA, 1, 441)

InfoLong == InfoA \o SP

StatusResponses == { StatusA, StatusB, StatusNoDay, RespERR, RespEmpty, RespGarbage }

AckResponses == { RespOK, RespERR, RespEmpty, RespGarbage }

InfoResponses ==
  { InfoA, InfoB, InfoBadTimer, InfoBadRandom, InfoBadCountdown, InfoShort, InfoLong,
    RespOK, RespERR, RespEmpty }

(***************************************************************************)
(* class State: the last known state of the switch.                        *)
(***************************************************************************)
_WEEKDAYS == << "Mon", "Tue", "Wed", "Thu", "Fri", "Sat", "Sun" >>

RANDOM_SCHEDULER == 41

COUNTDOWN_SCHEDULER == 43

\* the Python value None
None == [ py |-> "None" ]

\* the empty dict() of the class attributes time, random and countdown
EmptyDict == [ py |-> "dict" ]

Exceptions == { "BS21Exception", "ValueError", "IndexError", "KeyError",
                "StopIteration", "TypeError" }

\* "%02d:%02d:%02d" of the arguments as they are given
build_time_as_given(hour, minute, second) ==
  Fmt_02d(hour) \o << ":" >> \o Fmt_02d(minute) \o << ":" >> \o Fmt_02d(second)

\* State.build_time(hour, minute, second) for int arguments
build_time(hour, minute, second) ==
  LET _hour   == hour % 24
      _minute == minute % 60
      _second == second % 60
  IN  Fmt_02d(_hour) \o << ":" >> \o Fmt_02d(_minute) \o << ":" >> \o Fmt_02d(_second)

\* the weekday list that the loop of build_weekdays_and_time collects for int(day, 16)
weekdays_of(mask) ==
  LET Bit(k) == IF k = 1 THEN 1 ELSE IF k = 2 THEN 2 ELSE IF k = 3 THEN 4
                ELSE IF k = 4 THEN 8 ELSE IF k = 5 THEN 16 ELSE IF k = 6 THEN 32 ELSE 64
      Test(k) == BitSet(mask, Bit(k))
      RECURSIVE Collect(_)
      Collect(k) == IF k = 0 THEN << >>
                    ELSE IF Test(k) THEN Append(Collect(k - 1), _WEEKDAYS[k])
                    ELSE Collect(k - 1)
  IN  Collect(7)

\* State.build_weekdays_and_time(day, hour, minute, second): day is a str read
\* with int(day, 16), hour, minute and second are already int
build_weekdays_and_time(day, hour, minute, second) ==
  [ weekday |-> weekdays_of(int16(day).val),
    time    |-> build_time(hour % 24, minute % 60, second % 60) ]

\* does build_weekdays_and_time(day, hour, minute) return for these str arguments,
\* or raise ValueError in one of its int() calls
builds(day, hour, minute) == int(hour).ok /\ int(minute).ok /\ int16(day).ok

\* largest e >= i - 1 such that s[i..e] are decimal digits
DigitRunEnd(s, i) ==
  LET others == { e \in i..Len(s) : ~IsDecDigit(s[e]) }
  IN  IF others = {} THEN Len(s)
      ELSE (CHOOSE e \in others : \A f \in others : e <= f) - 1

Is2Digits(s, i) == i + 1 <= Len(s) /\ IsDecDigit(s[i]) /\ IsDecDigit(s[i + 1])

\* does _STATUS_PATTERN match at position p with the first digit run of the
\* firmware version ending at a
StatusMatchAt(s, p, a) ==
  LET At(e1, b) ==
        /\ p + 5 <= Len(s)
        /\ SubSeq(s, p, p + 5) = << "$", "B", "S", "-", "2", "1" >>
        /\ p + 6 <= Len(s) /\ s[p + 6] = "-"
        /\ e1 >= p + 7
        /\ e1 + 6 <= Len(s)
        /\ s[e1 + 1] = "-"
        /\ s[e1 + 2] \in { "0", "1" }
        /\ s[e1 + 3] = "-"
        /\ s[e1 + 4] # "\n"
        /\ s[e1 + 5] = " "
        /\ s[e1 + 6] = "V"
        /\ a >= e1 + 7 /\ a <= DigitRunEnd(s, e1 + 7)
        /\ a + 1 <= Len(s) /\ s[a + 1] # "\n"
        /\ b >= a + 2
        /\ b + 12 <= Len(s)
        /\ s[b + 1] = " " /\ Is2Digits(s, b + 2)
        /\ s[b + 4] = " " /\ Is2Digits(s, b + 5)
        /\ s[b + 7] = " " /\ Is2Digits(s, b + 8)
        /\ s[b + 10] = " " /\ Is2Digits(s, b + 11)
  IN  At(DigitRunEnd(s, p + 7), DigitRunEnd(s, a + 2))

\* re.search(State._STATUS_PATTERN, response): the leftmost match, its greedy
\* groups 1..9; ok = FALSE stands for None
_STATUS_PATTERN(s) ==
  LET starts == { p \in 1..Len(s) : s[p] = "$" }
      groups(p, e1, b) ==
        [ ok |-> TRUE,
          g1 |-> SubSeq(s, p + 1, p + 5),
          g2 |-> SubSeq(s, p + 7, e1),
          g3 |-> s[e1 + 2],
          g4 |-> s[e1 + 4],
          g5 |-> SubSeq(s, e1 + 6, b),
          g6 |-> SubSeq(s, b + 2, b + 3),
          g7 |-> SubSeq(s, b + 5, b + 6),
          g8 |-> SubSeq(s, b + 8, b + 9),
          g9 |-> SubSeq(s, b + 11, b + 12) ]
      match(best) ==
        groups(best[1], DigitRunEnd(s, best[1] + 7), DigitRunEnd(s, best[2] + 2))
      search(cands) ==
        IF cands = {} THEN [ ok |-> FALSE ]
        ELSE match(CHOOSE pa \in cands :
                     \A qa \in cands : pa[1] < qa[1] \/ (pa[1] = qa[1] /\ pa[2] >= qa[2]))
  IN  search({ pa \in starts \X (1..Len(s)) : StatusMatchAt(s, pa[1], pa[2]) })

ERR == << "$", "E", "R", "R" >>

OK == << "$", "O", "K" >>

\* State.set_state_from_response(response): the state afterwards and the
\* exception raised ("None" when it returns)
set_state_from_response(st, response) ==
  LET Set(matcher) ==
        IF startswith(response, ERR) THEN [ st |-> st, exc |-> "BS21Exception" ]
        ELSE IF ~matcher.ok THEN [ st |-> st, exc |-> "BS21Exception" ]
        ELSE [ st  |-> [ st EXCEPT
                           !.model        = matcher.g1,
                           !.serial       = matcher.g2,
                           !.firmware     = matcher.g5,
                           !.is_on        = (matcher.g3 = "1"),
                           !.is_overtemp  = BitSet(ord(matcher.g4), 2),
                           !.is_power     = BitSet(ord(matcher.g4), 4),
                           !.is_random    = BitSet(ord(matcher.g4), 8),
                           !.is_countdown = BitSet(ord(matcher.g4), 16),
                           !.time         = build_weekdays_and_time(
                                              matcher.g6, int(matcher.g7).val,
                                              int(matcher.g8).val, int(matcher.g9).val) ],
               exc |-> "None" ]
  IN  Set(_STATUS_PATTERN(response))

\* an entry whose kind changes one slot late
timer_entry_on_to_21(raw, i) ==
  [ slot     |-> i + 1,
    type     |-> IF i <= 20 THEN "on" ELSE "off",
    schedule |-> build_weekdays_and_time(raw[3 * i + 1], int(raw[3 * i + 2]).val,
                                         int(raw[3 * i + 3]).val, 0) ]

\* one entry of State.schedulers as set_timers_from_response builds it for
\* i in range(40) from the tokens raw (raw[i * 3] is raw[3 * i + 1] here)
timer_entry(raw, i) ==
  [ slot     |-> i + 1,
    type     |-> IF i <= 19 THEN "on" ELSE "off",
    schedule |-> build_weekdays_and_time(raw[3 * i + 1], int(raw[3 * i + 2]).val,
                                         int(raw[3 * i + 3]).val, 0) ]

\* the exception that building entry i raises, "None" when it is built
timer_entry_exc(raw, i) ==
  IF Len(raw) < 3 * i + 3 THEN "IndexError"
  ELSE IF ~builds(raw[3 * i + 1], raw[3 * i + 2], raw[3 * i + 3]) THEN "ValueError"
  ELSE "None"

\* the exception that building the random dict raises from the tokens raw
timer_random_exc(raw) ==
  IF Len(raw) < 6 THEN "IndexError"
  ELSE IF ~builds(raw[1], raw[2], raw[3]) THEN "ValueError"
  ELSE IF ~int(raw[4]).ok \/ ~int(raw[5]).ok THEN "ValueError"
  ELSE "None"

timer_random(raw) ==
  [ slot     |-> RANDOM_SCHEDULER,
    active   |-> raw[6] # << "0", "0" >>,
    schedule |-> build_weekdays_and_time(raw[1], int(raw[2]).val, int(raw[3]).val, 0),
    duration |-> build_time(int(raw[4]).val, int(raw[5]).val, 0) ]

\* the exception that building the countdown dict raises from the tokens raw
timer_countdown_exc(raw) ==
  IF Len(raw) < 6 THEN "IndexError"
  ELSE IF ~int(raw[6]).ok THEN "ValueError"
  ELSE IF Len(raw) < 7 THEN "IndexError"
  ELSE IF ~int(raw[7]).ok THEN "ValueError"
  ELSE IF Len(raw) < 8 THEN "IndexError"
  ELSE IF ~int(raw[8]).ok THEN "ValueError"
  ELSE IF int(raw[6]).val \notin 0..23 \/ int(raw[7]).val \notin 0..59
          \/ int(raw[8]).val \notin 0..59 THEN "ValueError"
  ELSE IF ~startswith(raw[4], << "I" >>) /\ ~int(raw[4]).ok THEN "ValueError"
  ELSE IF ~int(raw[2]).ok \/ ~int(raw[3]).ok THEN "ValueError"
  ELSE "None"

\* "%H:%M:%S" of a number of seconds since midnight
strftime_HMS(secs) ==
  Fmt_02d(secs \div 3600) \o << ":" >> \o Fmt_02d((secs % 3600) \div 60)
    \o << ":" >> \o Fmt_02d(secs % 60)

timer_countdown(raw) ==
  LET original        == int(raw[6]).val * 3600 + int(raw[7]).val * 60 + int(raw[8]).val
      _remaining_secs == IF startswith(raw[4], << "I" >>) THEN int(raw[8]).val
                         ELSE int(raw[4]).val
      remaining       == int(raw[2]).val * 3600 + int(raw[3]).val * 60 + _remaining_secs
  IN  [ slot      |-> COUNTDOWN_SCHEDULER,
        active    |-> raw[5] # << "0", "0" >>,
        type      |-> IF raw[1] # << "0", "0" >> THEN "on" ELSE "off",
        remaining |-> build_time(int(raw[2]).val, int(raw[3]).val, _remaining_secs),
        elapsed   |-> strftime_HMS((original - remaining) % 86400),
        original  |-> build_time(int(raw[6]).val, int(raw[7]).val, int(raw[8]).val) ]

\* What set_timers_from_response reads out of a 442 character response
\* before it raises or returns: the entries built until the first timer that
\* fails (built = 40 when none does), then the random dict, then the countdown
\* dict, each with the exception its construction raises.
parse_timers(response) ==
  LET Timers(raw) ==
        LET Built(failing) ==
              LET UpTo(k) ==
                    [ built      |-> k,
                      schedulers |-> [ n \in 1..k |-> timer_entry(raw, n - 1) ],
                      exc        |-> IF k < 40 THEN timer_entry_exc(raw, k) ELSE "None" ]
              IN  UpTo(IF failing = {} THEN 40
                       ELSE CHOOSE i \in failing : \A j \in failing : i <= j)
        IN  Built({ i \in 0..39 : timer_entry_exc(raw, i) # "None" })
      Random(raw) ==
        LET Built(exc) == [ exc |-> exc,
                            val |-> IF exc = "None" THEN timer_random(raw) ELSE None ]
        IN  Built(timer_random_exc(raw))
      Countdown(raw) ==
        LET Built(exc) == [ exc |-> exc,
                            val |-> IF exc = "None" THEN timer_countdown(raw) ELSE None ]
        IN  Built(timer_countdown_exc(raw))
      Read(s, r, c) ==
        [ built         |-> s.built,
          schedulers    |-> s.schedulers,
          timers_exc    |-> s.exc,
          random_exc    |-> r.exc,
          random        |-> r.val,
          countdown_exc |-> c.exc,
          countdown     |-> c.val ]
  IN  Read(Timers(split(Slice(response, 14, 372))),
           Random(split(Slice(response, 374, 414))),
           Countdown(split(Slice(response, 416, 439))))

\* the assignments of set_timers_from_response without its check of the length
assign_timers_any_length(st, response, p) ==
  LET st1 == [ st EXCEPT !.schedulers = p.schedulers ]
      st2 == [ st1 EXCEPT !.random = p.random ]
      st3 == [ st2 EXCEPT !.countdown = p.countdown ]
  IN  IF ~startswith(response, OK) THEN [ st |-> st, exc |-> "BS21Exception" ]
      ELSE IF p.timers_exc # "None" THEN [ st |-> st1, exc |-> p.timers_exc ]
      ELSE IF p.random_exc # "None" THEN [ st |-> st1, exc |-> p.random_exc ]
      ELSE IF p.countdown_exc # "None" THEN [ st |-> st2, exc |-> p.countdown_exc ]
      ELSE [ st |-> st3, exc |-> "None" ]

\* the assignments of set_timers_from_response, p being what it reads out of
\* the response: self.schedulers is replaced by a new list before the loop
\* that fills it, self.random is assigned before the countdown is parsed
assign_timers(st, response, p) ==
  LET st1 == [ st EXCEPT !.schedulers = p.schedulers ]
      st2 == [ st1 EXCEPT !.random = p.random ]
      st3 == [ st2 EXCEPT !.countdown = p.countdown ]
  IN  IF ~startswith(response, OK) THEN [ st |-> st, exc |-> "BS21Exception" ]
      ELSE IF Len(response) # 442 THEN [ st |-> st, exc |-> "BS21Exception" ]
      ELSE IF p.timers_exc # "None" THEN [ st |-> st1, exc |-> p.timers_exc ]
      ELSE IF p.random_exc # "None" THEN [ st |-> st1, exc |-> p.random_exc ]
      ELSE IF p.countdown_exc # "None" THEN [ st |-> st2, exc |-> p.countdown_exc ]
      ELSE [ st |-> st3, exc |-> "None" ]

\* State.set_timers_from_response(response): the state afterwards and the
\* exception raised
set_timers_from_response(st, response) ==
  assign_timers(st, response, parse_timers(response))

(***************************************************************************)
(* class Alias                                                             *)
(***************************************************************************)
\* Alias.validate_pin(pin): int(pin) in 0..9999, False when int() raises
validate_pin(pin) == int(pin).ok /\ int(pin).val >= 0 /\ int(pin).val <= 9999

(***************************************************************************)
(* class BS21: one session with the switch.  Every method is an operator   *)
(* from the session state st, the socket, the arguments and the outcome t  *)
(* of the transport to the state afterwards (st), the exception raised     *)
(* (exc, "None" when the method returns), the telegrams put on the wire    *)
(* (sent) and what the transport did in each exchange (io).                *)
(***************************************************************************)
Chars(str) ==
  CASE str = "REL1"    -> << "R", "E", "L", "1" >>
    [] str = "REL0"    -> << "R", "E", "L", "0" >>
    [] str = "RELX"    -> << "R", "E", "L", "X" >>
    [] str = "CLEAR43" -> << "C", "L", "E", "A", "R", "4", "3" >>
    [] str = "CLEAR41" -> << "C", "L", "E", "A", "R", "4", "1" >>
    [] str = "CLEAR00" -> << "C", "L", "E", "A", "R", "0", "0" >>
    [] str = "CLEAR"   -> << "C", "L", "E", "A", "R" >>
    [] str = "VISB"    -> << "V", "I", "S", "B" >>
    [] str = "INFO"    -> << "I", "N", "F", "O" >>
    [] str = "SET"     -> << "S", "E", "T" >>
    [] str = "SET43 "  -> << "S", "E", "T", "4", "3", " " >>
    [] str = "NEWC #"  -> << "N", "E", "W", "C", " ", "#" >>
    [] str = "TIME "   -> << "T", "I", "M", "E", " " >>
    [] str = " 01"     -> << " ", "0", "1" >>
    [] str = " 01 00"  -> << " ", "0", "1", " ", "0", "0" >>

\* BS21._PAYLOAD, the format strings applied to their arguments
_PAYLOAD_on == Chars("REL1")

_PAYLOAD_off == Chars("REL0")

_PAYLOAD_status == Chars("RELX")

\* the countdown template with a flag formatted by "%d"
payload_countdown_flag_d(t, h, m, sec) ==
  Chars("SET43 ") \o Fmt_d(t) \o SP \o Fmt_02d(h) \o SP \o Fmt_02d(m) \o SP
    \o Fmt_02d(sec) \o Chars(" 01")

_PAYLOAD_countdown(t, h, m, sec) ==
  Chars("SET43 ") \o Fmt_02d(t) \o SP \o Fmt_02d(h) \o SP \o Fmt_02d(m) \o SP
    \o Fmt_02d(sec) \o Chars(" 01")

_PAYLOAD_countdown_clear == Chars("CLEAR43")

_PAYLOAD_scheduler(id, d, h, m, sec) ==
  Chars("SET") \o Fmt_02d(id) \o SP \o d \o SP \o Fmt_02d(h) \o SP \o Fmt_02d(m) \o SP
    \o Fmt_02d(sec) \o Chars(" 01")

_PAYLOAD_scheduler_clear(id) == Chars("CLEAR") \o Fmt_02d(id)

_PAYLOAD_random(id, d, h, m, dh, dm) ==
  Chars("SET") \o Fmt_02d(id) \o SP \o d \o SP \o Fmt_02d(h) \o SP \o Fmt_02d(m) \o SP
    \o Fmt_02d(dh) \o SP \o Fmt_02d(dm) \o Chars(" 01 00")

_PAYLOAD_random_clear == Chars("CLEAR41")

_PAYLOAD_clear_all == Chars("CLEAR00")

_PAYLOAD_pin(pin) == Chars("NEWC #") \o pin \o SP

_PAYLOAD_visible == Chars("VISB")

_PAYLOAD_sync(weekday, h, m, sec) ==
  Chars("TIME ") \o weekday \o SP \o Fmt_02d(h) \o SP \o Fmt_02d(m) \o SP \o Fmt_02d(sec)

_PAYLOAD_schedulers == Chars("INFO")

\* BS21._send(payload): the envelope is built with the pin the session holds
\* now.  sock is "open", "unconnected" (socket created, connect failed) or
\* "None"; t.kind is "sendfail" (send raises), "norecv" (recv raises, as on
\* its timeout) or "resp" (t.data is what was read).  Without a socket
\* nothing is sent and the read raises; io is what took place.
_send(st, sock, payload, t) ==
  LET data == payload \o << "#" >> \o st.pin \o CRLF
  IN  IF sock = "None"
        THEN [ exc |-> "BS21Exception", sent |-> << >>, response |-> << >>,
               io |-> << [ kind |-> "norecv", data |-> << >> ] >> ]
      ELSE IF sock # "open" \/ t.kind = "sendfail"
        THEN [ exc |-> "BS21Exception", sent |-> << >>, response |-> << >>,
               io |-> << [ kind |-> "sendfail", data |-> << >> ] >> ]
      ELSE IF t.kind = "norecv"
        THEN [ exc |-> "BS21Exception", sent |-> << data >>, response |-> << >>,
               io |-> << t >> ]
      ELSE [ exc |-> "None", sent |-> << data >>, response |-> t.data, io |-> << t >> ]

\* a check of the acknowledgment that looks at the first character only
is_response_ok_first_char(response) == startswith(response, << "$" >>)

\* BS21._is_response_ok(response)
_is_response_ok(response) == startswith(response, OK)

\* what a method leaves behind: the state, the exception raised ("None" when
\* it returns), and what the exchange r of _send put on the wire and read
Result(st, exc, r) == [ st |-> st, exc |-> exc, sent |-> r.sent, io |-> r.io ]

\* a method that sends payload and decodes the status line of the answer
send_and_set_state(st, sock, payload, t) ==
  LET Set(d, r) == Result(d.st, d.exc, r)
      Answer(r) == IF r.exc # "None" THEN Result(st, r.exc, r)
                   ELSE Set(set_state_from_response(st, r.response), r)
  IN  Answer(_send(st, sock, payload, t))

request_state(st, sock, t) == send_and_set_state(st, sock, _PAYLOAD_status, t)

\* BS21.sync_time(): now.wd is now.weekday(), 0 for Monday
sync_time(st, sock, now, t) ==
  LET Pow2(k) == IF k = 0 THEN 1 ELSE IF k = 1 THEN 2 ELSE IF k = 2 THEN 4
                 ELSE IF k = 3 THEN 8 ELSE IF k = 4 THEN 16 ELSE IF k = 5 THEN 32 ELSE 64
      weekday == Last2(replace_x_0(hex(Pow2(now.wd))))
  IN  send_and_set_state(st, sock, _PAYLOAD_sync(weekday, now.hour, now.minute, now.second), t)

request_schedulers(st, sock, t) ==
  LET Set(d, r) == Result(d.st, d.exc, r)
      Answer(r) == IF r.exc # "None" THEN Result(st, r.exc, r)
                   ELSE Set(set_timers_from_response(st, r.response), r)
  IN  Answer(_send(st, sock, _PAYLOAD_schedulers, t))

turn_on(st, sock, t) == send_and_set_state(st, sock, _PAYLOAD_on, t)

turn_off(st, sock, t) == send_and_set_state(st, sock, _PAYLOAD_off, t)

toggle(st, sock, t) == IF st.is_on THEN turn_off(st, sock, t) ELSE turn_on(st, sock, t)

\* a daymask without the final upper()
build_daymask_lower(days) ==
  LET b == (IF days[1] THEN 1 ELSE 0) + (IF days[2] THEN 2 ELSE 0)
           + (IF days[3] THEN 4 ELSE 0) + (IF days[4] THEN 8 ELSE 0)
           + (IF days[5] THEN 16 ELSE 0) + (IF days[6] THEN 32 ELSE 0)
           + (IF days[7] THEN 64 ELSE 0)
  IN  Last2(replace_x_0(hex(b)))

\* BS21._build_daymask(mon, ..., sun): days is the tuple of the seven flags
_build_daymask(days) ==
  LET b == (IF days[1] THEN 1 ELSE 0) + (IF days[2] THEN 2 ELSE 0)
           + (IF days[3] THEN 4 ELSE 0) + (IF days[4] THEN 8 ELSE 0)
           + (IF days[5] THEN 16 ELSE 0) + (IF days[6] THEN 32 ELSE 0)
           + (IF days[7] THEN 64 ELSE 0)
  IN  upper(Last2(replace_x_0(hex(b))))

NoDays == << FALSE, FALSE, FALSE, FALSE, FALSE, FALSE, FALSE >>

\* BS21._get_or_create_and_add_scheduler(id): next(filter(...)) over
\* self._state.schedulers has no default, so it raises StopIteration when no
\* entry has the slot; a matching entry is a non-empty dict, so the branch
\* that creates and appends an entry is never entered.  idx is the position
\* of the entry returned.
_get_or_create_and_add_scheduler(st, id) ==
  LET found == { i \in 1..Len(st.schedulers) : st.schedulers[i].slot = id }
  IN  IF found = {} THEN [ exc |-> "StopIteration", idx |-> 0 ]
      ELSE [ exc |-> "None", idx |-> CHOOSE i \in found : \A j \in found : i <= j ]

\* the physical slot that set_scheduler and reset_scheduler compute
physical_slot(id, type) ==
  LET _id == id % 20
  IN  IF type = "on" THEN _id ELSE _id + 20

set_scheduler(st, sock, id, type, hours, minutes, days, t) ==
  LET _id == physical_slot(id, type)
      _d  == _build_daymask(days)
      _h  == hours % 24
      _m  == minutes % 60
      _s  == 0
      Update(scheduler, r) ==
        IF scheduler.exc # "None" THEN Result(st, scheduler.exc, r)
        ELSE Result([ st EXCEPT
                        !.schedulers[scheduler.idx].type =
                           IF _id <= 20 THEN "on" ELSE "off",
                        !.schedulers[scheduler.idx].schedule =
                           build_weekdays_and_time(_d, _h, _m, 0) ],
                    "None", r)
      Answer(r) ==
        IF r.exc # "None" THEN Result(st, r.exc, r)
        ELSE IF ~_is_response_ok(r.response) THEN Result(st, "BS21Exception", r)
        ELSE Update(_get_or_create_and_add_scheduler(st, _id), r)
  IN  Answer(_send(st, sock, _PAYLOAD_scheduler(_id, _d, _h, _m, _s), t))

reset_scheduler(st, sock, id, type, t) ==
  LET _id == physical_slot(id, type)
      Update(scheduler, r) ==
        IF scheduler.exc # "None" THEN Result(st, scheduler.exc, r)
        ELSE Result([ st EXCEPT
                        !.schedulers[scheduler.idx].type =
                           IF _id <= 20 THEN "on" ELSE "off",
                        !.schedulers[scheduler.idx].schedule =
                           build_weekdays_and_time(_build_daymask(NoDays), 0, 0, 0) ],
                    "None", r)
      Answer(r) ==
        IF r.exc # "None" THEN Result(st, r.exc, r)
        ELSE IF ~_is_response_ok(r.response) THEN Result(st, "BS21Exception", r)
        ELSE Update(_get_or_create_and_add_scheduler(st, _id), r)
  IN  Answer(_send(st, sock, _PAYLOAD_scheduler_clear(_id), t))

\* the entry of self._state.schedulers at idx after set_random / reset_random
\* have assigned its keys active, schedule and duration
random_entry(e, active, schedule, duration) ==
  [ slot |-> e.slot, type |-> e.type, active |-> active,
    schedule |-> schedule, duration |-> duration ]

set_random(st, sock, hours, minutes, dur_hours, dur_minutes, days, t) ==
  LET _d  == _build_daymask(days)
      _h  == hours % 24
      _m  == minutes % 60
      _dh == dur_hours % 24
      _dm == dur_minutes % 60
      st1 == [ st EXCEPT !.is_random = TRUE ]
      Update(scheduler, r) ==
        IF scheduler.exc # "None" THEN Result(st1, scheduler.exc, r)
        ELSE Result([ st1 EXCEPT !.schedulers[scheduler.idx] =
                        random_entry(@, TRUE, build_weekdays_and_time(_d, _h, _m, 0),
                                     build_time(_dh, _dm, 0)) ],
                    "None", r)
      Answer(r) ==
        IF r.exc # "None" THEN Result(st, r.exc, r)
        ELSE IF ~_is_response_ok(r.response) THEN Result(st, "BS21Exception", r)
        ELSE Update(_get_or_create_and_add_scheduler(st1, RANDOM_SCHEDULER), r)
  IN  Answer(_send(st, sock, _PAYLOAD_random(RANDOM_SCHEDULER, _d, _h, _m, _dh, _dm), t))

reset_random(st, sock, t) ==
  LET st1 == [ st EXCEPT !.is_random = FALSE ]
      Update(scheduler, r) ==
        IF scheduler.exc # "None" THEN Result(st1, scheduler.exc, r)
        ELSE Result([ st1 EXCEPT !.schedulers[scheduler.idx] =
                        random_entry(@, FALSE,
                                     build_weekdays_and_time(_build_daymask(NoDays), 0, 0, 0),
                                     build_time(0, 0, 0)) ],
                    "None", r)
      Answer(r) ==
        IF r.exc # "None" THEN Result(st, r.exc, r)
        ELSE IF ~_is_response_ok(r.response) THEN Result(st, "BS21Exception", r)
        ELSE Update(_get_or_create_and_add_scheduler(st1, RANDOM_SCHEDULER), r)
  IN  Answer(_send(st, sock, _PAYLOAD_random_clear, t))

\* the literal "00:00:00"
ZeroTime == << "0", "0", ":", "0", "0", ":", "0", "0" >>

\* seconds since midnight of a clock reading
SecOfDay(now) == now.hour * 3600 + now.minute * 60 + now.second

\* BS21.set_countdown(hours, minutes, seconds, type); today is the reading of
\* datetime.datetime.today() after the acknowledgment
set_countdown(st, sock, hours, minutes, seconds, type, today, t) ==
  LET _t == IF type = "on" THEN 1 ELSE 0
      _h == hours % 24
      _m == minutes % 60
      _s == seconds % 60
      \* (today - datetime(2000, 1, 1, _h, _m, _s)).seconds
      remaining_secs == (SecOfDay(today) - (_h * 3600 + _m * 60 + _s)) % 86400
      Answer(r) ==
        IF r.exc # "None" THEN Result(st, r.exc, r)
        ELSE IF ~_is_response_ok(r.response) THEN Result(st, "BS21Exception", r)
        ELSE Result([ st EXCEPT
                        !.is_countdown = TRUE,
                        !.countdown =
                          [ slot      |-> COUNTDOWN_SCHEDULER,
                            active    |-> TRUE,
                            type      |-> type,
                            remaining |-> build_time(remaining_secs \div 3600,
                                                     (remaining_secs % 3600) \div 60,
                                                     remaining_secs % 60),
                            elapsed   |-> ZeroTime,
                            original  |-> build_time(_h, _m, _s) ] ],
                    "None", r)
  IN  Answer(_send(st, sock, _PAYLOAD_countdown(_t, _h, _m, _s), t))

\* the difference of the two times of day in whole seconds of the clock,
\* the microsecond of now left out
countdown_until_whole_seconds(st, sock, hour, minute, type, now, today, t) ==
  LET Until(duration) ==
        set_countdown(st, sock, duration \div 3600, (duration % 3600) \div 60,
                      duration % 60, type, today, t)
  IN  Until(((hour % 24) * 3600 + (minute % 60) * 60 - SecOfDay(now)) % 86400)

\* BS21.set_countdown_until(hour, minute, type): now is the reading of
\* datetime.datetime.now(), now.micro tells whether its microsecond is not 0;
\* (then - now).seconds is the seconds field of the normalised timedelta
set_countdown_until(st, sock, hour, minute, type, now, today, t) ==
  LET Until(duration) ==
        set_countdown(st, sock, duration \div 3600, (duration % 3600) \div 60,
                      duration % 60, type, today, t)
  IN  Until(((hour % 24) * 3600 + (minute % 60) * 60
              - SecOfDay(now) - (IF now.micro THEN 1 ELSE 0)) % 86400)

reset_countdown(st, sock, t) ==
  LET Answer(r) ==
        IF r.exc # "None" THEN Result(st, r.exc, r)
        ELSE IF ~_is_response_ok(r.response) THEN Result(st, "BS21Exception", r)
        ELSE Result([ st EXCEPT
                        !.is_countdown = FALSE,
                        !.countdown =
                          [ slot      |-> COUNTDOWN_SCHEDULER,
                            active    |-> FALSE,
                            type      |-> "off",
                            remaining |-> ZeroTime,
                            elapsed   |-> ZeroTime,
                            original  |-> ZeroTime ] ],
                    "None", r)
  IN  Answer(_send(st, sock, _PAYLOAD_countdown_clear, t))

reset_all(st, sock, t) ==
  LET Answer(r) ==
        IF r.exc # "None" THEN Result(st, r.exc, r)
        ELSE IF ~_is_response_ok(r.response) THEN Result(st, "BS21Exception", r)
        ELSE Result([ st EXCEPT
                        !.schedulers    = << >>,
                        !.is_schedulers = "False",
                        !.random        = None,
                        !.is_random     = FALSE,
                        !.countdown     = None,
                        !.is_countdown  = FALSE ],
                    "None", r)
  IN  Answer(_send(st, sock, _PAYLOAD_clear_all, t))

\* BS21.change_pin(newpin): the payload is formatted with the pin of the
\* session, then the session's pin is assigned, then the telegram is sent;
\* the response is not looked at
change_pin(st, sock, newpin, t) ==
  LET st1 == [ st EXCEPT !.pin = newpin ]
      Sent(r) == Result(st1, r.exc, r)
  IN  IF ~validate_pin(newpin)
        THEN [ st |-> st, exc |-> "BS21Exception", sent |-> << >>, io |-> << >> ]
      ELSE Sent(_send(st1, sock, _PAYLOAD_pin(st.pin), t))

\* BS21.set_visible(): the response is not looked at
set_visible(st, sock, t) ==
  LET Sent(r) == Result(st, r.exc, r)
  IN  Sent(_send(st, sock, _PAYLOAD_visible, t))

\* State.get_printable_status(): the exception raised by
\* self.time["weekday"][0], "None" when the report is built
get_printable_status(st) ==
  IF st.time = EmptyDict THEN "KeyError"
  ELSE IF st.time.weekday = << >> THEN "IndexError"
  ELSE "None"

\* State.get_printable_schedulers(): the exception raised by the subscripts of
\* self.random and self.countdown, "None" when the report is built
get_printable_schedulers(st) ==
  IF st.random = None THEN "TypeError"
  ELSE IF st.random = EmptyDict THEN "KeyError"
  ELSE IF st.countdown = None THEN "TypeError"
  ELSE IF st.countdown = EmptyDict THEN "KeyError"
  ELSE "None"

\* BS21.disconnect(): closes the socket when there is one
disconnect(sock) == IF sock = "None" THEN "None" ELSE "closed"

(***************************************************************************)
(* The inputs of a run: what the transport does, the clock readings and    *)
(* the arguments on the command line.                                      *)
(***************************************************************************)
\* what the transport does in one exchange
Transports(responses) ==
  { [ kind |-> "sendfail", data |-> << >> ], [ kind |-> "norecv", data |-> << >> ] }
    \cup { [ kind |-> "resp", data |-> r ] : r \in responses }

Clocks ==
  { [ wd |-> 1, hour |-> 5, minute |-> 41, second |-> 59, micro |-> TRUE ],
    [ wd |-> 6, hour |-> 23, minute |-> 59, second |-> 30, micro |-> FALSE ] }

InitPin == << "1", "2", "3", "4" >>

NewPins == { << "4", "3", "2", "1" >>, << "7" >>, << "1", "2", "a", "4" >> }

LogicalIds == { 1, 20 }

Types == { "on", "off" }

MonFri == << TRUE, TRUE, TRUE, TRUE, TRUE, FALSE, FALSE >>

SatSun == << FALSE, FALSE, FALSE, FALSE, FALSE, TRUE, TRUE >>

DaySets == { MonFri, SatSun }

\* hour and minute of a timer or of a deadline
Times == { << 7, 30 >> }

\* hours, minutes and seconds of a countdown
Durations == { << 0, 10, 0 >> }

(***************************************************************************)
(* do_commands(target, pin, commands): connect, run the commands in order, *)
(* disconnect in the finally clause of the loop.                           *)
(***************************************************************************)
VARIABLES
  state,          \* bs21._state, the State object of the session
  client_socket,  \* bs21._client_socket: "None", "unconnected", "open" or "closed"
  pc,             \* "start", "loop" (inside the try block) or "done"
  ncmds,          \* commands taken from the command line so far
  func,           \* the command run last ("connect" for bs21.connect())
  call,           \* its arguments
  wire,           \* the telegrams it sent
  resp,           \* what the transport did in each of its exchanges
  raised,         \* the exception that left do_commands, "None" when there is none
  disconnected,   \* bs21.disconnect() has been called
  args,           \* the arguments of a call of one function of the codec on its own
  result          \* what that call returned, NoArgs before the call

\* the variables of a do_commands run
session == << state, client_socket, pc, ncmds, func, call, wire, resp, raised, disconnected >>

vars == << state, client_socket, pc, ncmds, func, call, wire, resp, raised, disconnected,
           args, result >>

NoArgs == [ none |-> TRUE ]

\* State.__init__ and the class attributes of State, BS21.__init__ with the pin
InitState ==
  [ pin           |-> InitPin,
    model         |-> << >>,
    serial        |-> << >>,
    firmware      |-> << >>,
    is_on         |-> FALSE,
    is_overtemp   |-> FALSE,
    is_power      |-> FALSE,
    is_random     |-> FALSE,
    is_countdown  |-> FALSE,
    is_schedulers |-> "unset",
    time          |-> EmptyDict,
    schedulers    |-> << >>,
    random        |-> EmptyDict,
    countdown     |-> EmptyDict ]

\* BS21(address, pin) before connect()
NewSession ==
  /\ state = InitState
  /\ client_socket = "None"
  /\ pc = "start"
  /\ ncmds = 0
  /\ func = "new"
  /\ call = NoArgs
  /\ wire = << >>
  /\ resp = << >>
  /\ raised = "None"
  /\ disconnected = FALSE

Init ==
  /\ NewSession
  /\ args = NoArgs
  /\ result = NoArgs

\* BS21.connect() as do_commands calls it, before its try block: when the
\* socket cannot be opened connect() returns None and the loop is entered all
\* the same; when sync_time() raises, the exception leaves do_commands.
Connect ==
  /\ pc = "start"
  /\ \E sock \in { "open", "unconnected", "None" }, now \in Clocks,
        t \in Transports(StatusResponses) :
       LET Synced(r) ==
             /\ state' = r.st
             /\ wire' = r.sent
             /\ resp' = r.io
             /\ raised' = r.exc
             /\ pc' = IF r.exc = "None" THEN "loop" ELSE "done"
       IN  /\ client_socket' = sock
           /\ func' = "connect"
           /\ call' = NoArgs
           /\ IF sock = "open"
                THEN Synced(sync_time(state, sock, now, t))
                ELSE /\ pc' = "loop"
                     /\ UNCHANGED << state, wire, resp, raised >>
           /\ UNCHANGED << ncmds, disconnected, args, result >>

\* one pass of the loop over commands with the result r of the method called:
\* an exception leaves the loop through the finally clause
Ran(f, c, r) ==
  /\ state' = r.st
  /\ func' = f
  /\ call' = c
  /\ wire' = r.sent
  /\ resp' = r.io
  /\ raised' = r.exc
  /\ ncmds' = ncmds + 1
  /\ IF r.exc = "None"
       THEN /\ pc' = "loop"
            /\ UNCHANGED << client_socket, disconnected >>
       ELSE /\ pc' = "done"
            /\ client_socket' = disconnect(client_socket)
            /\ disconnected' = TRUE
  /\ UNCHANGED << args, result >>

InLoop == pc = "loop" /\ ncmds < MaxCmds

\* two methods in a row: the second runs when the first returned
AndThen(r1, r2) ==
  IF r1.exc # "None" THEN r1
  ELSE [ st |-> r2.st, exc |-> r2.exc, sent |-> r1.sent \o r2.sent, io |-> r1.io \o r2.io ]

\* a method followed by a report: the report's exception when the method returned
AndPrint(r, exc) == IF r.exc # "None" THEN r ELSE [ r EXCEPT !.exc = exc ]

\* request_schedulers() after a method that returned r1
ThenSchedulers(r1, sock, t) == AndThen(r1, request_schedulers(r1.st, sock, t))

\* print(state.get_printable_status()) after methods that returned r
PrintStatus(r) == AndPrint(r, get_printable_status(r.st))

\* print(state.get_printable_schedulers()) after methods that returned r
PrintSchedulers(r) == AndPrint(r, get_printable_schedulers(r.st))

CmdOn ==
  /\ InLoop
  /\ \E t \in Transports(StatusResponses) :
       Ran("on", NoArgs, turn_on(state, client_socket, t))

CmdOff ==
  /\ InLoop
  /\ \E t \in Transports(StatusResponses) :
       Ran("off", NoArgs, turn_off(state, client_socket, t))

CmdToggle ==
  /\ InLoop
  /\ \E t \in Transports(StatusResponses) :
       Ran("toggle", NoArgs, toggle(state, client_socket, t))

\* "status": request_state(), request_schedulers(), then the report
CmdStatus ==
  /\ InLoop
  /\ \E t1 \in Transports(StatusResponses) :
       LET Second(r1) ==
             IF r1.exc # "None" THEN Ran("status", NoArgs, r1)
             ELSE \E t2 \in Transports(InfoResponses) :
                    Ran("status", NoArgs, PrintStatus(ThenSchedulers(r1, client_socket, t2)))
       IN  Second(request_state(state, client_socket, t1))

CmdCountdown ==
  /\ InLoop
  /\ \E d \in Durations, type \in Types, today \in Clocks, t \in Transports(AckResponses) :
       Ran("countdown", [ hours |-> d[1], minutes |-> d[2], seconds |-> d[3], type |-> type ],
           set_countdown(state, client_socket, d[1], d[2], d[3], type, today, t))

CmdCountdownUntil ==
  /\ InLoop
  /\ \E hm \in Times, type \in Types, now \in Clocks, t \in Transports(AckResponses) :
       Ran("countdown-until", [ hours |-> hm[1], minutes |-> hm[2], type |-> type, now |-> now ],
           set_countdown_until(state, client_socket, hm[1], hm[2], type, now, now, t))

CmdCountdownClear ==
  /\ InLoop
  /\ \E t \in Transports(AckResponses) :
       Ran("countdown-clear", NoArgs, reset_countdown(state, client_socket, t))

CmdRandom ==
  /\ InLoop
  /\ \E hm \in Times, dur \in Times, days \in DaySets, t \in Transports(AckResponses) :
       Ran("random", [ hours |-> hm[1], minutes |-> hm[2], dur_hours |-> dur[1],
                       dur_minutes |-> dur[2], days |-> days ],
           set_random(state, client_socket, hm[1], hm[2], dur[1], dur[2], days, t))

CmdRandomClear ==
  /\ InLoop
  /\ \E t \in Transports(AckResponses) :
       Ran("random-clear", NoArgs, reset_random(state, client_socket, t))

CmdScheduler ==
  /\ InLoop
  /\ \E id \in LogicalIds, type \in Types, hm \in Times, days \in DaySets,
        t \in Transports(AckResponses) :
       Ran("scheduler", [ id |-> id, type |-> type, hours |-> hm[1], minutes |-> hm[2],
                          days |-> days ],
           set_scheduler(state, client_socket, id, type, hm[1], hm[2], days, t))

CmdSchedulerClear ==
  /\ InLoop
  /\ \E id \in LogicalIds, type \in Types, t \in Transports(AckResponses) :
       Ran("scheduler-clear", [ id |-> id, type |-> type ],
           reset_scheduler(state, client_socket, id, type, t))

CmdClearAll ==
  /\ InLoop
  /\ \E t \in Transports(AckResponses) :
       Ran("clear-all", NoArgs, reset_all(state, client_socket, t))

\* "b, pin = bs21.change_pin(*call)" unpacks the State that change_pin
\* returns, which raises TypeError
CmdPin ==
  /\ InLoop
  /\ \E newpin \in NewPins, t \in Transports(AckResponses) :
       Ran("pin", [ newpin |-> newpin ],
           AndPrint(change_pin(state, client_socket, newpin, t), "TypeError"))

CmdVisible ==
  /\ InLoop
  /\ \E t \in Transports(AckResponses) :
       Ran("visible", NoArgs, set_visible(state, client_socket, t))

CmdSync ==
  /\ InLoop
  /\ \E now \in Clocks, t \in Transports(StatusResponses) :
       Ran("sync", [ now |-> now ], sync_time(state, client_socket, now, t))

CmdSchedulers ==
  /\ InLoop
  /\ \E t \in Transports(InfoResponses) :
       Ran("schedulers", NoArgs, PrintSchedulers(request_schedulers(state, client_socket, t)))

\* "json": request_state(), request_schedulers(), then toJSON()
CmdJson ==
  /\ InLoop
  /\ \E t1 \in Transports(StatusResponses) :
       LET Second(r1) ==
             IF r1.exc # "None" THEN Ran("json", NoArgs, r1)
             ELSE \E t2 \in Transports(InfoResponses) :
                    Ran("json", NoArgs, ThenSchedulers(r1, client_socket, t2))
       IN  Second(request_state(state, client_socket, t1))

\* "sleep" and "debug" send nothing and leave the session as it is
CmdSleepOrDebug ==
  /\ InLoop
  /\ \E f \in { "sleep", "debug" } :
       Ran(f, NoArgs, [ st |-> state, exc |-> "None", sent |-> << >>, io |-> << >> ])

\* the command line is exhausted: the finally clause runs and do_commands returns
Return ==
  /\ pc = "loop"
  /\ pc' = "done"
  /\ client_socket' = disconnect(client_socket)
  /\ disconnected' = TRUE
  /\ func' = "return"
  /\ call' = NoArgs
  /\ wire' = << >>
  /\ resp' = << >>
  /\ UNCHANGED << state, ncmds, raised, args, result >>

Next ==
  \/ Connect
  \/ CmdOn
  \/ CmdOff
  \/ CmdToggle
  \/ CmdStatus
  \/ CmdCountdown
  \/ CmdCountdownUntil
  \/ CmdCountdownClear
  \/ CmdRandom
  \/ CmdRandomClear
  \/ CmdScheduler
  \/ CmdSchedulerClear
  \/ CmdClearAll
  \/ CmdPin
  \/ CmdVisible
  \/ CmdSync
  \/ CmdSchedulers
  \/ CmdJson
  \/ CmdSleepOrDebug
  \/ Return

Spec == Init /\ [][Next]_vars

TypeOK ==
  /\ pc \in { "start", "loop", "done" }
  /\ client_socket \in { "None", "unconnected", "open", "closed" }
  /\ ncmds \in 0..MaxCmds
  /\ raised \in Exceptions \cup { "None" }
  /\ disconnected \in BOOLEAN

(***************************************************************************)
(* The properties of the session.                                          *)
(***************************************************************************)
\* the schedule part of the session state
Schedule(st) == << st.schedulers, st.random, st.countdown, st.is_random, st.is_countdown >>

\* the commands that call set_scheduler, reset_scheduler, set_random,
\* reset_random, set_countdown, reset_countdown and reset_all
Mutating ==
  { "scheduler", "scheduler-clear", "random", "random-clear", "countdown",
    "countdown-clear", "clear-all" }

\* the last exchange of the command run last read a response
Answered == resp # << >> /\ resp[Len(resp)].kind = "resp"

\* ... that starts with "$OK"
Acked == Answered /\ startswith(resp[Len(resp)].data, OK)

\* ... that starts with "$ERR"
Rejected == Answered /\ startswith(resp[Len(resp)].data, ERR)

\* C1: a mutating command changes the schedule state of the session only when
\* the response to it starts with "$OK": not when the send or the read fails,
\* not when the response is empty, malformed or "$ERR".
C1_ScheduleChangesOnlyOnOk ==
  [][ (func' \in Mutating /\ ~Acked') => Schedule(state') = Schedule(state) ]_vars

\* a set or clear command was rejected with "$ERR" in a session that had
\* decoded an info telegram
C1_Witness ==
  /\ func \in Mutating
  /\ Len(state.schedulers) = 40
  /\ wire # << >>
  /\ Rejected
  /\ raised = "BS21Exception"

\* C2: when decoding a response fails, the session state is what it was
\* before the call (stated for the commands that make one exchange and
\* decode its response).
C2_FailedDecodeLeavesState ==
  [][ (/\ func' \in { "on", "off", "toggle", "sync", "schedulers" }
       /\ Answered'
       /\ raised' # "None")
      => state' = state ]_vars

\* the commands that send a telegram through one method of the session
Sending ==
  Mutating \cup { "on", "off", "toggle", "sync", "schedulers", "visible", "countdown-until" }

\* C3: when the response to a telegram starts with "$ERR", the operation
\* raises and the schedule state is the same as before.
C3_ErrRaisesAndLeavesSchedule ==
  [][ (func' \in Sending /\ Rejected')
      => (raised' # "None" /\ Schedule(state') = Schedule(state)) ]_vars

\* C4: change_pin leaves the pin of the session alone unless the device
\* acknowledged the telegram.
C4_PinKeptUnlessAcked ==
  [][ (func' = "pin" /\ ~Acked') => state'.pin = state.pin ]_vars

\* C5: the telegram of change_pin(newPin) is "NEWC #<newPin> #<currentPin>\r\n",
\* currentPin being the pin of the session before the call.
C5_PinTelegram ==
  [][ (func' = "pin" /\ wire' # << >>)
      => wire' = << Chars("NEWC #") \o call'.newpin \o << " ", "#" >> \o state.pin \o CRLF >>
    ]_vars

\* C6: when do_commands is left after connect opened the socket, disconnect
\* has been called.
C6_DisconnectOnEveryExit ==
  (pc = "done" /\ client_socket # "None") => disconnected

\* the slot that the claims give to a logical id and a kind
ClaimedSlot(id, type) == IF type = "on" THEN id ELSE id + 20

\* the slot number in a SET or CLEAR telegram
TelegramSlot(telegram) ==
  IF startswith(telegram, Chars("SET")) THEN int(SubSeq(telegram, 4, 5)).val
  ELSE int(SubSeq(telegram, 6, 7)).val

\* C7: the slot in the telegram of set_scheduler and reset_scheduler is the
\* id for "on" and id + 20 for "off", a slot in 1..40.
C7_PhysicalSlot ==
  (func \in { "scheduler", "scheduler-clear" } /\ wire # << >>)
    => /\ TelegramSlot(wire[1]) = ClaimedSlot(call.id, call.type)
       /\ TelegramSlot(wire[1]) \in 1..40

\* the weekday names of a tuple of seven flags, Monday first
DayNames(days) ==
  LET RECURSIVE Names(_)
      Names(k) == IF k = 0 THEN << >>
                  ELSE IF days[k] THEN Append(Names(k - 1), _WEEKDAYS[k])
                  ELSE Names(k - 1)
  IN  Names(7)

\* "hh:mm:ss"
Clock(h, m, sec) ==
  Fmt_02d(h) \o << ":" >> \o Fmt_02d(m) \o << ":" >> \o Fmt_02d(sec)

\* the positions of the entries of the scheduler list with a slot
EntriesOf(slot) == { i \in 1..Len(state.schedulers) : state.schedulers[i].slot = slot }

\* C8: after an acknowledged set_scheduler the scheduler list has exactly one
\* entry for the physical slot, with the given weekdays and the time hh:mm:00.
C8_SetSchedulerUpserts ==
  (func = "scheduler" /\ Acked)
    => /\ Cardinality(EntriesOf(ClaimedSlot(call.id, call.type))) = 1
       /\ \A i \in EntriesOf(ClaimedSlot(call.id, call.type)) :
            state.schedulers[i].schedule =
              [ weekday |-> DayNames(call.days), time |-> Clock(call.hours, call.minutes, 0) ]

\* the disabled representation of a schedule: no weekday, time 00:00:00
Disabled == [ weekday |-> << >>, time |-> ZeroTime ]

\* C9: after an acknowledged reset_all the state holds the 40 timers, the
\* random schedule and the countdown in their disabled representation.
C9_ResetAllKeepsDisabledEntries ==
  (func = "clear-all" /\ Acked)
    => /\ \A slot \in 1..40 :
            /\ Cardinality(EntriesOf(slot)) = 1
            /\ \A i \in EntriesOf(slot) : state.schedulers[i].schedule = Disabled
       /\ state.random \notin { None, EmptyDict }
       /\ state.random.active = FALSE
       /\ state.random.schedule = Disabled
       /\ state.countdown \notin { None, EmptyDict }
       /\ state.countdown.active = FALSE
       /\ state.countdown.remaining = ZeroTime

\* C10: after an acknowledged set_random the random schedule of the session
\* is active and holds the given weekdays, start and duration.
C10_SetRandomUpdatesRandom ==
  (func = "random" /\ Acked)
    => /\ state.random \notin { None, EmptyDict }
       /\ state.random.slot = RANDOM_SCHEDULER
       /\ state.random.active = TRUE
       /\ state.random.schedule =
            [ weekday |-> DayNames(call.days), time |-> Clock(call.hours, call.minutes, 0) ]
       /\ state.random.duration = Clock(call.dur_hours, call.dur_minutes, 0)

\* C11: a set or clear command issued twice in a row with the same arguments,
\* both acknowledged, puts the same telegram on the wire both times and leaves
\* the session state as it was after the first.
C11_RepeatIsIdempotent ==
  [][ (/\ func \in Mutating /\ Acked /\ raised = "None"
       /\ func' = func /\ call' = call /\ Acked' /\ raised' = "None")
      => (wire' = wire /\ state' = state) ]_vars

(***************************************************************************)
(* The functions of the codec called on their own: a call is drawn in the  *)
(* initial state and applied once.                                         *)
(***************************************************************************)
\* the weekday sets: the flags mon, tue, wed, thu, fri, sat, sun
AllDaySets == [ 1..7 -> BOOLEAN ]

\* the calls of BS21._build_daymask followed by State.build_weekdays_and_time
DaymaskCalls == { [ f |-> "_build_daymask", days |-> d ] : d \in AllDaySets }

\* the int arguments of State.build_time: in range, at the edges of the range,
\* beyond it by less and by more than one period, and negative
HourInputs == { -25, -24, -1, 0, 7, 23, 24, 100 }

MinuteInputs == { -61, -60, -1, 0, 30, 59, 60, 125 }

BuildTimeCalls ==
  { [ f |-> "build_time", hour |-> h, minute |-> m, second |-> sec ] :
      h \in HourInputs, m \in MinuteInputs, sec \in MinuteInputs }

\* the durations << hours, minutes, seconds >> of a countdown block
CountdownDurations ==
  { << 0, 0, 0 >>, << 0, 0, 59 >>, << 0, 5, 0 >>, << 0, 10, 0 >>, << 0, 20, 0 >>,
    << 1, 30, 15 >> }

\* the calls of State.set_timers_from_response: info telegrams of 442
\* characters whose countdown block holds the flags and the durations
\* remaining and original
CountdownCalls ==
  { [ f |-> "set_timers_from_response", kind |-> k, active |-> a,
      remaining |-> rem, original |-> orig ] :
      k \in { d00, d01 }, a \in { d00, d01 },
      rem \in CountdownDurations, orig \in CountdownDurations }

\* the deadlines << hour, minute >> of set_countdown_until
Deadlines == { << 0, 0 >>, << 5, 41 >>, << 5, 42 >>, << 7, 30 >>, << 23, 59 >> }

\* the readings of datetime.datetime.now() in set_countdown_until: before,
\* at and after a deadline, in the last second of the day and at midnight,
\* with and without microseconds
UntilClocks ==
  { [ hour |-> 0, minute |-> 0, second |-> 0, micro |-> FALSE ],
    [ hour |-> 5, minute |-> 41, second |-> 59, micro |-> TRUE ],
    [ hour |-> 7, minute |-> 30, second |-> 0, micro |-> FALSE ],
    [ hour |-> 7, minute |-> 30, second |-> 0, micro |-> TRUE ],
    [ hour |-> 23, minute |-> 59, second |-> 30, micro |-> FALSE ],
    [ hour |-> 23, minute |-> 59, second |-> 59, micro |-> FALSE ],
    [ hour |-> 23, minute |-> 59, second |-> 59, micro |-> TRUE ] }

\* the calls of BS21.set_countdown_until on a connected session
CountdownUntilCalls ==
  { [ f |-> "set_countdown_until", hour |-> hm[1], minute |-> hm[2], type |-> type,
      now |-> now ] : hm \in Deadlines, type \in Types, now \in UntilClocks }

CodecCalls == DaymaskCalls \cup BuildTimeCalls \cup CountdownCalls \cup CountdownUntilCalls

CodecInit ==
  /\ NewSession
  /\ args \in CodecCalls
  /\ result = NoArgs

\* _build_daymask(mon, ..., sun), and the weekday list that
\* build_weekdays_and_time reads out of the mask
CallBuildDaymask ==
  /\ result = NoArgs
  /\ args.f = "_build_daymask"
  /\ result' = [ daymask |-> _build_daymask(args.days),
                 weekday |-> build_weekdays_and_time(_build_daymask(args.days),
                                                     0, 0, 0).weekday ]
  /\ UNCHANGED << session, args >>

\* State.build_time(hour, minute, second)
CallBuildTime ==
  /\ result = NoArgs
  /\ args.f = "build_time"
  /\ result' = [ time |-> build_time(args.hour, args.minute, args.second) ]
  /\ UNCHANGED << session, args >>

\* State.set_timers_from_response(response) on a new State
CallSetTimers ==
  /\ result = NoArgs
  /\ args.f = "set_timers_from_response"
  /\ LET cd == << args.kind, Fmt_02d(args.remaining[1]), Fmt_02d(args.remaining[2]),
                 Fmt_02d(args.remaining[3]), args.active, Fmt_02d(args.original[1]),
                 Fmt_02d(args.original[2]), Fmt_02d(args.original[3]) >>
         Decoded(response, r) ==
           [ len |-> Len(response), exc |-> r.exc, countdown |-> r.st.countdown ]
         Decode(response) == Decoded(response, set_timers_from_response(InitState, response))
     IN  result' = Decode(Info(TimersA, RandomA, cd))
  /\ UNCHANGED << session, args >>

\* BS21.set_countdown_until(hour, minute, type) on a connected session whose
\* switch acknowledges the telegram
CallCountdownUntil ==
  /\ result = NoArgs
  /\ args.f = "set_countdown_until"
  /\ LET Armed(r) == [ exc |-> r.exc, sent |-> r.sent, countdown |-> r.st.countdown ]
     IN  result' = Armed(set_countdown_until(InitState, "open", args.hour, args.minute,
                                             args.type, args.now, args.now,
                                             [ kind |-> "resp", data |-> RespOK ]))
  /\ UNCHANGED << session, args >>

CodecNext ==
  \/ CallBuildDaymask
  \/ CallBuildTime
  \/ CallSetTimers
  \/ CallCountdownUntil

CodecSpec == CodecInit /\ [][CodecNext]_vars

\* the number whose bit 0 is Monday .. bit 6 is Sunday
MaskOf(days) ==
  (IF days[1] THEN 1 ELSE 0) + (IF days[2] THEN 2 ELSE 0) + (IF days[3] THEN 4 ELSE 0)
    + (IF days[4] THEN 8 ELSE 0) + (IF days[5] THEN 16 ELSE 0)
    + (IF days[6] THEN 32 ELSE 0) + (IF days[7] THEN 64 ELSE 0)

\* the two uppercase hex digits of a number below 256
Hex2(n) == << HexDigitsUpper[(n \div 16) + 1], HexDigitsUpper[(n % 16) + 1] >>

\* C12: for every weekday set S the daymask of S is two uppercase hex digits
\* with bit 0 = Monday .. bit 6 = Sunday, "00" for the empty set, and decoding
\* it gives the days of S in Mon-to-Sun order.
C12_DaymaskRoundTrip ==
  (result # NoArgs /\ args.f = "_build_daymask")
    => /\ result.daymask = Hex2(MaskOf(args.days))
       /\ (args.days = NoDays => result.daymask = << "0", "0" >>)
       /\ result.weekday = DayNames(args.days)

\* the mask of Mon, Wed, Thu, Sat, Sun ("6D") was built and decoded
C12_Witness ==
  /\ result # NoArgs
  /\ args.f = "_build_daymask"
  /\ args.days = << TRUE, FALSE, TRUE, TRUE, FALSE, TRUE, TRUE >>
  /\ result.daymask = << "6", "D" >>

\* C13: set_timers_from_response of a response that is not 442 characters long
\* raises and leaves schedulers, random and countdown (the whole state) as
\* they were, whether or not the response starts with "$OK".
C13_WrongLengthRaises ==
  [][ (func' = "schedulers" /\ Answered' /\ Len(resp'[1].data) # 442)
      => (raised' = "BS21Exception" /\ state' = state) ]_vars

\* request_schedulers was answered with 443 characters that start with "$OK",
\* in a session that had decoded an info telegram before
C13_Witness ==
  /\ func = "schedulers"
  /\ Answered
  /\ Len(resp[1].data) = 443
  /\ startswith(resp[1].data, OK)
  /\ raised = "BS21Exception"
  /\ Len(state.schedulers) = 40

\* a method that decodes a status line was answered with
\* "$BS-21-004593-1-D V1.18 02 05 41 59\r\n" and returned
StatusADecoded ==
  /\ func \in { "connect", "on", "off", "toggle", "sync" }
  /\ Answered
  /\ resp[Len(resp)].data = StatusA
  /\ raised = "None"

\* what the status line gives apart from the random and countdown flags
StatusAFields ==
  /\ state.is_on = TRUE
  /\ state.is_overtemp = FALSE
  /\ state.is_power = TRUE
  /\ state.serial = << "0", "0", "4", "5", "9", "3" >>
  /\ state.firmware = << "V", "1", ".", "1", "8" >>
  /\ state.time.weekday = << "Tue" >>
  /\ state.time.time = << "0", "5", ":", "4", "1", ":", "5", "9" >>

\* C14 as stated: decoding "$BS-21-004593-1-D V1.18 02 05 41 59\r\n" gives
\* on, not overtemp, power, random, countdown, serial "004593", firmware
\* "V1.18", weekday ["Tue"] and time "05:41:59".
C14_StatusLineAsStated ==
  StatusADecoded => (StatusAFields /\ state.is_random = TRUE /\ state.is_countdown = TRUE)

\* C14, amended: decoding "$BS-21-004593-1-D V1.18 02 05 41 59\r\n" gives on,
\* not overtemp, power, not random, not countdown (ord("D") = 68 = 64 + 4 has
\* neither bit 8 nor bit 16), serial "004593", firmware "V1.18", weekday
\* ["Tue"] and time "05:41:59".
C14_StatusLineDecoded ==
  StatusADecoded => (StatusAFields /\ state.is_random = FALSE /\ state.is_countdown = FALSE)

\* turn_on, run as the second command of a session, was answered with the
\* status line
C14_Witness ==
  /\ StatusADecoded
  /\ func = "on"
  /\ ncmds = 2

\* the two decimal digits of a number below 100
Dec2(n) == << DecDigits[(n \div 10) + 1], DecDigits[(n % 10) + 1] >>

\* the telegram that carries a payload: "<payload>#<pin>\r\n"
Enveloped(payload) == << payload \o << "#" >> \o state.pin \o CRLF >>

\* C15: set_scheduler sends "SET<ss> <dd> <hh> <mm> 00 01", <ss> being the
\* physical slot (the id for "on", id + 20 for "off"), <dd> the daymask and
\* <hh>, <mm> the time, each of two digits.
C15_SchedulerPayload ==
  (func = "scheduler" /\ wire # << >>)
    => wire = Enveloped(<< "S", "E", "T" >> \o Dec2(ClaimedSlot(call.id, call.type))
                          \o SP \o Hex2(MaskOf(call.days))
                          \o SP \o Dec2(call.hours) \o SP \o Dec2(call.minutes)
                          \o << " ", "0", "0", " ", "0", "1" >>)

\* the duration fields of the countdown telegram of the current call
CountdownFields ==
  Dec2(call.hours % 24) \o SP \o Dec2(call.minutes % 60) \o SP \o Dec2(call.seconds % 60)
    \o << " ", "0", "1" >>

\* C16 as stated: the telegram of set_countdown is "SET43 <k> <hh> <mm> <ss> 01"
\* where <k> is the single character "1" for On and "0" for Off
C16_FlagIsOneCharacter ==
  (func = "countdown" /\ wire # << >>)
    => wire = Enveloped(<< "S", "E", "T", "4", "3", " " >>
                          \o << IF call.type = "on" THEN "1" ELSE "0" >>
                          \o SP \o CountdownFields)

\* C16 amended: the telegram of set_countdown is "SET43 <kk> <hh> <mm> <ss> 01"
\* where <kk> is the two characters "01" for On and "00" for Off, and the
\* duration fields are two decimal digits each
C16_FlagIsTwoDigits ==
  (func = "countdown" /\ wire # << >>)
    => wire = Enveloped(<< "S", "E", "T", "4", "3", " " >>
                          \o (IF call.type = "on" THEN << "0", "1" >> ELSE << "0", "0" >>)
                          \o SP \o CountdownFields)

\* set_countdown(0, 10, 0, "on") has put its telegram on the wire
C16_Witness ==
  /\ func = "countdown"
  /\ call.type = "on"
  /\ call.minutes = 10
  /\ wire # << >>
  /\ Len(wire[1]) = Len("SET43 01 00 10 00 01#1234") + 2

\* a string of exactly four decimal digits
FourDigits(s) == Len(s) = 4 /\ \A k \in 1..Len(s) : (\E d \in 1..10 : DecDigits[d] = s[k])

\* C17: change_pin called with a new pin that is not exactly four decimal
\* digits raises the validation error, sends nothing and leaves the pin of the
\* session unchanged
C17_OnlyFourDigitPins ==
  [][ (func' = "pin" /\ ~FourDigits(call'.newpin))
        => (wire' = << >> /\ state'.pin = state.pin /\ raised' = "BS21Exception") ]_vars

\* the number that the two decimal digits at positions k and k + 1 of s write,
\* -1 when one of them is not a decimal digit
TwoDigitsAt(s, k) ==
  LET Val(c) == IF \E d \in 0..9 : DecDigits[d + 1] = c
                  THEN CHOOSE d \in 0..9 : DecDigits[d + 1] = c
                ELSE -100
  IN  IF Val(s[k]) < 0 \/ Val(s[k + 1]) < 0 THEN -1 ELSE 10 * Val(s[k]) + Val(s[k + 1])

\* v is n modulo m: in 0..m-1 and apart from n by a multiple of m
IsModulo(v, n, m) == v \in 0..(m - 1) /\ \E q \in -10..10 : n = q * m + v

\* C18: build_time(hour, minute, second) returns the eight characters
\* "hh:mm:ss" with hh = hour mod 24 in 0..23, mm = minute mod 60 and
\* ss = second mod 60 in 0..59, for every integer input, out of range and
\* negative ones included
C18_BuildTimeWraps ==
  (result # NoArgs /\ args.f = "build_time")
    => /\ Len(result.time) = 8
       /\ result.time[3] = ":" /\ result.time[6] = ":"
       /\ IsModulo(TwoDigitsAt(result.time, 1), args.hour, 24)
       /\ IsModulo(TwoDigitsAt(result.time, 4), args.minute, 60)
       /\ IsModulo(TwoDigitsAt(result.time, 7), args.second, 60)

\* build_time(-25, 125, -1) has returned "23:05:59"
C18_Witness ==
  /\ result # NoArgs
  /\ args = [ f |-> "build_time", hour |-> -25, minute |-> 125, second |-> -1 ]
  /\ result.time = << "2", "3", ":", "0", "5", ":", "5", "9" >>

\* C19: in every state of a session, each entry of the scheduler list has a
\* slot number in 1..40, no slot number occurs twice, and the kind of an entry
\* is On exactly when its slot is in 1..20 and Off exactly when it is in 21..40
C19_SlotsWellFormed ==
  /\ \A k \in 1..Len(state.schedulers) :
       /\ state.schedulers[k].slot \in 1..40
       /\ state.schedulers[k].type \in { "on", "off" }
       /\ state.schedulers[k].type = "on" <=> state.schedulers[k].slot \in 1..20
       /\ state.schedulers[k].type = "off" <=> state.schedulers[k].slot \in 21..40
  /\ \A j, k \in 1..Len(state.schedulers) :
       state.schedulers[j].slot = state.schedulers[k].slot => j = k

\* set_scheduler, run after an info decode, was acknowledged and has updated
\* an entry of the 40 of the list
C19_Witness ==
  /\ func = "scheduler"
  /\ Acked
  /\ raised = "None"
  /\ Len(state.schedulers) = 40
  /\ \E k \in 1..40 :
       /\ state.schedulers[k].slot = physical_slot(call.id, call.type)
       /\ state.schedulers[k].schedule.time = build_time(call.hours, call.minutes, 0)
       /\ state.schedulers[k].schedule.weekday = DayNames(call.days)

\* the seconds of a duration << hours, minutes, seconds >>
SecondsOf(d) == d[1] * 3600 + d[2] * 60 + d[3]

\* the seconds of a string "hh:mm:ss"
SecondsOfHMS(s) ==
  TwoDigitsAt(s, 1) * 3600 + TwoDigitsAt(s, 4) * 60 + TwoDigitsAt(s, 7)

\* C20: the countdown decoded from a well-formed info telegram of 442
\* characters has elapsed = original - remaining in seconds, original and
\* remaining being the durations of the countdown block: elapsed + remaining
\* is original, and elapsed does not exceed original
C20_ElapsedIsOriginalMinusRemaining ==
  (result # NoArgs /\ args.f = "set_timers_from_response")
    => /\ result.len = 442
       /\ result.exc = "None"
       /\ SecondsOfHMS(result.countdown.original) = SecondsOf(args.original)
       /\ SecondsOfHMS(result.countdown.remaining) = SecondsOf(args.remaining)
       /\ SecondsOfHMS(result.countdown.elapsed)
            = SecondsOf(args.original) - SecondsOf(args.remaining)
       /\ SecondsOfHMS(result.countdown.elapsed) + SecondsOfHMS(result.countdown.remaining)
            = SecondsOfHMS(result.countdown.original)
       /\ SecondsOfHMS(result.countdown.elapsed) <= SecondsOfHMS(result.countdown.original)

\* set_countdown_until has run and set_countdown has sent its telegram
UntilArmed ==
  result # NoArgs /\ args.f = "set_countdown_until" /\ result.exc = "None"
    /\ Len(result.sent) = 1

\* the hours, minutes and seconds handed to set_countdown, read from the
\* telegram "SET43 kk hh mm ss 01", and their sum in seconds
HandedHours == TwoDigitsAt(result.sent[1], 10)

HandedMinutes == TwoDigitsAt(result.sent[1], 13)

HandedSeconds == TwoDigitsAt(result.sent[1], 16)

HandedDuration == HandedHours * 3600 + HandedMinutes * 60 + HandedSeconds

\* the deadline in seconds of the day, and whether it lies earlier in the day
\* than the current time
DeadlineSecs == args.hour * 3600 + args.minute * 60

DeadlineEarlier ==
  \/ DeadlineSecs < SecOfDay(args.now)
  \/ DeadlineSecs = SecOfDay(args.now) /\ args.now.micro

\* the fields handed to set_countdown lie in 0..23, 0..59 and 0..59 and are
\* the whole seconds of (deadline - now) taken modulo 24 hours
UntilIsDifference ==
  /\ HandedHours \in 0..23
  /\ HandedMinutes \in 0..59
  /\ HandedSeconds \in 0..59
  /\ result.countdown.original = build_time(HandedHours, HandedMinutes, HandedSeconds)
  /\ \E q \in { 0, 1 } :
       IF args.now.micro
         THEN HandedDuration + 1 = DeadlineSecs - SecOfDay(args.now) + q * 86400
       ELSE HandedDuration = DeadlineSecs - SecOfDay(args.now) + q * 86400

\* C21 as stated: for every current time and every deadline the fields handed
\* to set_countdown are those of (deadline - now) modulo 24 hours, in range,
\* and a deadline earlier in the day than the current time gives a duration
\* that is neither negative nor zero
C21_EarlierDeadlineNeverZero ==
  UntilArmed => (UntilIsDifference /\ (DeadlineEarlier => HandedDuration > 0))

\* what set_countdown_until does hold to (C21 but for the zero duration): the
\* fields handed to set_countdown are the whole seconds of (deadline - now)
\* modulo 24 hours, in range; a deadline earlier in the day than the current
\* time wraps to the next day, and the duration handed over is zero only when
\* less than one second is left to that deadline
C21_UntilWrapsToNextDay ==
  UntilArmed
    => /\ UntilIsDifference
       /\ DeadlineEarlier
            => /\ HandedDuration >= 0
               /\ HandedDuration = 0
                    => (args.now.micro /\ SecOfDay(args.now) = DeadlineSecs + 86399)

\* set_countdown_until(7, 30, "on") at 23:59:30 has armed 07:30:30
C21_Witness ==
  /\ UntilArmed
  /\ DeadlineEarlier
  /\ args.hour = 7 /\ args.minute = 30 /\ args.type = "on"
  /\ SecOfDay(args.now) = 23 * 3600 + 59 * 60 + 30
  /\ HandedHours = 7 /\ HandedMinutes = 30 /\ HandedSeconds = 30

====
